---- MODULE Spec2Model ----
(***************************************************************************)
(* Model of scripts/run.py: the schema parser (parse_schema), the diff     *)
(* engine (diff_schemas), the migration renderer (generate_migration) and  *)
(* the command line driver (main).                                         *)
(*                                                                         *)
(* A Python str is a sequence of one-character strings.  A Python dict is  *)
(* a sequence of [k, v] records with distinct keys, in insertion order.    *)
(***************************************************************************)
EXTENDS Integers, Sequences, FiniteSets, TLC

VARIABLES
    pc,          \* position of the run
    blocks,      \* the CREATE TABLE blocks the input text was written from
    sql,         \* argument of parse_schema
    tables,      \* result of parse_schema
    old,         \* first argument of diff_schemas
    new,         \* second argument of diff_schemas
    changes,     \* diff_schemas(old, new)
    swapped,     \* diff_schemas(new, old)
    dialect,     \* dialect argument of generate_migration / local of main
    up_lines,    \* generate_migration: its list up_lines when it returns
    down_lines,  \* generate_migration: its list down_lines when it returns
    migration,   \* result of generate_migration
    args,        \* sys.argv[1:]
    files,       \* main: positional arguments collected
    dry_run,     \* main: --dry-run seen
    output_path, \* main: value of --output, None when absent
    exit_code,   \* exit status of the process, None while running
    stdout,      \* text written to standard output
    stderr,      \* text written to standard error
    written      \* dict path -> text of the files written by the run

vars == <<pc, blocks, sql, tables, old, new, changes, swapped, dialect,
          up_lines, down_lines, migration,
          args, files, dry_run, output_path, exit_code, stdout, stderr, written>>

\* ---------------------------------------------------------------- bounds
MaxFrags == 2
MaxBlocks == 2
MaxTables == 2
MaxCols == 2
MaxArgs == 4

\* ------------------------------------------------------ Python primitives
None == "None"

Min(S) == CHOOSE x \in S : \A y \in S : x <= y
Max(S) == CHOOSE x \in S : \A y \in S : x >= y

Drop(s, n) == SubSeq(s, n + 1, Len(s))

LowerLetters == <<"a","b","c","d","e","f","g","h","i","j","k","l","m","n","o","p","q","r","s","t","u","v","w","x","y","z">>
UpperLetters == <<"A","B","C","D","E","F","G","H","I","J","K","L","M","N","O","P","Q","R","S","T","U","V","W","X","Y","Z">>
Digits == <<"0","1","2","3","4","5","6","7","8","9">>

Range(s) == {s[i] : i \in DOMAIN s}

\* str.isspace of one character, as strip(), split() and \s use it
IsSpace(c) == c \in {" ", "\n", "\t"}

\* \w of the re module
WordChars == Range(LowerLetters) \cup Range(UpperLetters) \cup Range(Digits) \cup {"_"}
IsWord(c) == c \in WordChars

LowerChars == Range(LowerLetters)
ToUpper(c) ==
    IF c \in LowerChars
    THEN UpperLetters[CHOOSE i \in DOMAIN LowerLetters : LowerLetters[i] = c]
    ELSE c

\* str.upper
Upper(s) == IF s = <<>> THEN <<>> ELSE [i \in 1..Len(s) |-> ToUpper(s[i])]

\* str.startswith
StartsWith(s, p) == Len(s) >= Len(p) /\ SubSeq(s, 1, Len(p)) = p

\* str.strip
Strip(s) ==
    LET ns == {i \in 1..Len(s) : ~IsSpace(s[i])}
    IN  IF ns = {} THEN <<>> ELSE SubSeq(s, Min(ns), Max(ns))

\* str.split(sep) for a one-character separator
RECURSIVE SplitOn(_, _)
SplitOn(s, sep) ==
    LET at == {i \in 1..Len(s) : s[i] = sep}
    IN  IF at = {} THEN <<s>>
        ELSE <<SubSeq(s, 1, Min(at) - 1)>> \o SplitOn(Drop(s, Min(at)), sep)

\* str.split() with no argument: runs of whitespace separate, none is kept
RECURSIVE SplitWs(_)
SplitWs(s) ==
    LET ns == {i \in 1..Len(s) : ~IsSpace(s[i])}
    IN  IF ns = {} THEN <<>>
        ELSE LET b  == Min(ns)
                 sp == {i \in b..Len(s) : IsSpace(s[i])}
                 e  == IF sp = {} THEN Len(s) ELSE Min(sp) - 1
             IN  <<SubSeq(s, b, e)>> \o SplitWs(Drop(s, e))

\* sep.join(list)
RECURSIVE Join(_, _)
Join(sep, list) ==
    IF list = <<>> THEN <<>>
    ELSE IF Len(list) = 1 THEN list[1]
    ELSE list[1] \o sep \o Join(sep, Tail(list))

\* Python dict: key in d, d[key], d[key] = value, d.keys()
DictHas(d, key) == \E i \in DOMAIN d : d[i].k = key
DictGet(d, key) == d[CHOOSE i \in DOMAIN d : d[i].k = key].v
DictSet(d, key, value) ==
    IF DictHas(d, key)
    THEN [i \in DOMAIN d |-> IF d[i].k = key THEN [k |-> key, v |-> value] ELSE d[i]]
    ELSE Append(d, [k |-> key, v |-> value])
DictKeys(d) == IF d = <<>> THEN <<>> ELSE [i \in 1..Len(d) |-> d[i].k]
KeySet(d) == {d[i].k : i \in DOMAIN d}

\* ------------------------------------------------------------ parse_schema
\* the keyword list of the any(...) test
ConstraintKeywords == <<<<"P","R","I","M","A","R","Y"," ","K","E","Y">>, <<"F","O","R","E","I","G","N"," ","K","E","Y">>, <<"U","N","I","Q","U","E">>, <<"C","H","E","C","K">>, <<"C","O","N","S","T","R","A","I","N","T">>>>

\* any(upper.startswith(kw) for kw in [...])
IsConstraintLine(upper) == \E i \in DOMAIN ConstraintKeywords : StartsWith(upper, ConstraintKeywords[i])

\* if len(parts) >= 2
EnoughParts(parts) == Len(parts) >= 2

\* one pass of the loop body over a fragment of the table body
ParseLine(columns, raw) ==
    LET line  == Strip(raw)
        parts == SplitWs(line)
    IN  IF line = <<>> THEN columns
        ELSE IF IsConstraintLine(Upper(line)) THEN columns
        ELSE IF EnoughParts(parts)
             THEN DictSet(columns, parts[1], Join(<<" ">>, Tail(parts)))
             ELSE columns

\* for line in body.split(","): ...
RECURSIVE ParseLines(_, _)
ParseLines(columns, lines) ==
    IF lines = <<>> THEN columns
    ELSE ParseLines(ParseLine(columns, Head(lines)), Tail(lines))

ParseColumns(body) == ParseLines(<<>>, SplitOn(body, ","))

\* first index >= i whose character is not whitespace (Len(s) + 1 if none)
RECURSIVE SkipSpace(_, _)
SkipSpace(s, i) == IF i > Len(s) \/ ~IsSpace(s[i]) THEN i ELSE SkipSpace(s, i + 1)

\* first index >= i whose character is not a word character (Len(s) + 1 if none)
RECURSIVE SkipWord(_, _)
SkipWord(s, i) == IF i > Len(s) \/ ~IsWord(s[i]) THEN i ELSE SkipWord(s, i + 1)

\* first index >= i where the text ");" starts (0 if none)
RECURSIVE FindClose(_, _)
FindClose(s, i) ==
    IF i + 1 > Len(s) THEN 0
    ELSE IF s[i] = ")" /\ s[i + 1] = ";" THEN i
    ELSE FindClose(s, i + 1)

\* a literal of the pattern at index i, under re.IGNORECASE
LitAt(s, i, lit) ==
    /\ i + Len(lit) - 1 <= Len(s)
    /\ \A j \in 1..Len(lit) : ToUpper(s[i + j - 1]) = ToUpper(lit[j])

NoMatch == [found |-> FALSE]

\* CREATE\s+TABLE\s+(\w+)\s*\((.*?)\);  anchored at index i, re.DOTALL
MatchAt(s, i) ==
    IF ~LitAt(s, i, <<"C","R","E","A","T","E">>) THEN NoMatch
    ELSE LET a == i + 6
             b == SkipSpace(s, a)
         IN  IF b = a \/ ~LitAt(s, b, <<"T","A","B","L","E">>) THEN NoMatch
             ELSE LET c == b + 5
                      n == SkipSpace(s, c)
                      e == SkipWord(s, n)
                      p == SkipSpace(s, e)
                  IN  IF n = c \/ e = n \/ ~LitAt(s, p, <<"(">>) THEN NoMatch
                      ELSE LET close == FindClose(s, p + 1)
                           IN  IF close = 0 THEN NoMatch
                               ELSE [found |-> TRUE,
                                     name  |-> SubSeq(s, n, e - 1),
                                     body  |-> SubSeq(s, p + 1, close - 1),
                                     end   |-> close + 1]

\* pattern.finditer(sql): the non-overlapping matches, leftmost first
RECURSIVE FindIter(_, _)
FindIter(s, from) ==
    IF from > Len(s) THEN <<>>
    ELSE LET m == MatchAt(s, from)
         IN  IF m.found THEN <<m>> \o FindIter(s, m.end + 1)
             ELSE FindIter(s, from + 1)

\* faulty variant: a later block of the same table is merged into the earlier one
RECURSIVE MergeInto(_, _)
MergeInto(d, e) == IF e = <<>> THEN d ELSE MergeInto(DictSet(d, Head(e).k, Head(e).v), Tail(e))
StoreTableMerge(tbls, name, columns) ==
    IF DictHas(tbls, name) THEN DictSet(tbls, name, MergeInto(DictGet(tbls, name), columns))
    ELSE DictSet(tbls, name, columns)

\* tables[table_name] = columns
StoreTable(tbls, name, columns) == DictSet(tbls, name, columns)

RECURSIVE ParseMatches(_, _)
ParseMatches(tbls, matches) ==
    IF matches = <<>> THEN tbls
    ELSE ParseMatches(StoreTable(tbls, Head(matches).name, ParseColumns(Head(matches).body)),
                      Tail(matches))

parse_schema(text) == ParseMatches(<<>>, FindIter(text, 1))

\* ------------------------------------------------- inputs of parse_schema
\* sequences over S of length at most n
SeqUpTo(S, n) == UNION {[1..k -> S] : k \in 0..n}

\* fragments of a table body (none holds a comma or the text ");")
Fragments == {
    <<"i","d"," ","I","N","T","E","G","E","R"," ","P","R","I","M","A","R","Y"," ","K","E","Y">>,
    <<"\n"," "," "," "," ","n","a","m","e"," "," "," ","T","E","X","T","\n">>,
    <<"i","d"," ","T","E","X","T">>,
    <<"P","R","I","M","A","R","Y"," ","K","E","Y"," ","(","i","d",")">>,
    <<"u","n","i","q","u","e"," ","(","i","d",")">>,
    <<"C","H","E","C","K"," ","(","i","d"," ",">"," ","0",")">>,
    <<"C","o","n","s","t","r","a","i","n","t"," ","f","k"," ","F","O","R","E","I","G","N"," ","K","E","Y"," ","(","i","d",")"," ","R","E","F","E","R","E","N","C","E","S"," ","u"," ","(","i","d",")">>,
    <<"F","O","R","E","I","G","N"," ","K","E","Y"," ","(","i","d",")"," ","R","E","F","E","R","E","N","C","E","S"," ","u"," ","(","i","d",")">>,
    <<"c","h","e","c","k","s","u","m"," ","T","E","X","T">>,
    <<"P","R","I","M","A","R","Y"," "," ","K","E","Y">>,
    <<"x">>,
    <<" ">> }

TableNames == {<<"t">>, <<"u">>}
Heads == {<<"C","R","E","A","T","E"," ","T","A","B","L","E"," ">>, <<"c","r","e","a","t","e","\n"," "," ","T","a","b","l","e","\t">>}
Opens == {<<" ","(">>, <<"(">>}
Closes == {<<")",";","\n">>, <<")","\n">>}

\* the text of one block
BlockText(b) == b.head \o b.name \o b.open \o Join(<<",">>, b.frags) \o b.close

RECURSIVE BlocksText(_)
BlocksText(bs) == IF bs = <<>> THEN <<>> ELSE BlockText(Head(bs)) \o BlocksText(Tail(bs))

\* one well-formed block with any fragments
ColumnBlocks ==
    {[head |-> h, name |-> <<"t">>, open |-> o, frags |-> f, close |-> <<")",";","\n">>] :
        h \in Heads, o \in Opens, f \in SeqUpTo(Fragments, MaxFrags)}

\* a dict of columns: name -> definition
ColumnSets == {
    <<>>,
    <<[k |-> <<"a">>, v |-> <<"I","N","T">>]>>,
    <<[k |-> <<"b">>, v |-> <<"T","E","X","T">>]>>,
    <<[k |-> <<"a">>, v |-> <<"I","N","T"," ","N","O","T"," ","N","U","L","L">>], [k |-> <<"b">>, v |-> <<"T","E","X","T">>]>>,
    <<[k |-> <<"b">>, v |-> <<"I","N","T">>], [k |-> <<"a">>, v |-> <<"I","N","T">>]>> }

\* the fragments that spell a dict of columns
FragsOf(cols) == IF cols = <<>> THEN <<>> ELSE [i \in 1..Len(cols) |-> <<"\n"," "," ">> \o cols[i].k \o <<" ">> \o cols[i].v]

\* several blocks, possibly of the same table, possibly not closed
ManyBlocks ==
    {[head |-> h, name |-> n, open |-> <<" ","(">>, cols |-> c, frags |-> FragsOf(c), close |-> e] :
        h \in Heads, n \in TableNames, c \in ColumnSets, e \in Closes}

\* ------------------------------------------------------------ diff_schemas
\* for key in d: if key not in other: result[key] = d[key]
RECURSIVE NotIn(_, _)
NotIn(d, other) ==
    IF d = <<>> THEN <<>>
    ELSE IF DictHas(other, Head(d).k) THEN NotIn(Tail(d), other)
    ELSE <<Head(d)>> \o NotIn(Tail(d), other)

\* faulty variant: every table of new is reported as added
AddedTablesAll(old_, new_) == new_

\* for table in new: if table not in old: changes["added_tables"][table] = new[table]
AddedTables(old_, new_) == NotIn(new_, old_)

\* faulty variant: the second loop repeats the first
RemovedTablesCopy(old_, new_) == NotIn(new_, old_)

\* for table in old: if table not in new: changes["removed_tables"][table] = old[table]
RemovedTables(old_, new_) == NotIn(old_, new_)

\* faulty variant: a column counts as missing when its definition differs too
RECURSIVE ColumnsNotInByItem(_, _)
ColumnsNotInByItem(cols, other) ==
    IF cols = <<>> THEN <<>>
    ELSE IF \E i \in DOMAIN other : other[i] = Head(cols) THEN ColumnsNotInByItem(Tail(cols), other)
    ELSE <<Head(cols)>> \o ColumnsNotInByItem(Tail(cols), other)

\* for col in cols: if col not in other: ...
ColumnsNotIn(cols, other) == NotIn(cols, other)

\* changes[category].setdefault(table, {})[col] = defn, for every col found
SetColumns(category, table, found) == IF found = <<>> THEN category ELSE DictSet(category, table, found)

\* faulty variant: the column loop walks the old schema
ColumnLoopTablesOld(old_, new_) == old_

\* the tables the column loop visits, in the order it visits them
ColumnLoopTables(old_, new_) == new_

\* for table in new: if table in old: (the two column loops)
RECURSIVE DiffColumns(_, _, _, _)
DiffColumns(acc, todo, old_, new_) ==
    IF todo = <<>> THEN acc
    ELSE LET table == Head(todo).k
         IN  IF DictHas(old_, table) /\ DictHas(new_, table)
             THEN DiffColumns(
                      [added   |-> SetColumns(acc.added, table, ColumnsNotIn(DictGet(new_, table), DictGet(old_, table))),
                       removed |-> SetColumns(acc.removed, table, ColumnsNotIn(DictGet(old_, table), DictGet(new_, table)))],
                      Tail(todo), old_, new_)
             ELSE DiffColumns(acc, Tail(todo), old_, new_)

diff_schemas(old_, new_) ==
    LET cols == DiffColumns([added |-> <<>>, removed |-> <<>>], ColumnLoopTables(old_, new_), old_, new_)
    IN  [added_tables    |-> AddedTables(old_, new_),
         removed_tables  |-> RemovedTables(old_, new_),
         added_columns   |-> cols.added,
         removed_columns |-> cols.removed]

\* ------------------------------------------------------ generate_migration
\* ",\n    ".join(f"{name} {defn}" for name, defn in columns.items())
ColumnList(columns) ==
    Join(<<",","\n"," "," "," "," ">>, IF columns = <<>> THEN <<>> ELSE [i \in 1..Len(columns) |-> columns[i].k \o <<" ">> \o columns[i].v])

CreateTable(table, columns) == <<"C","R","E","A","T","E"," ","T","A","B","L","E"," ">> \o table \o <<" ","(","\n"," "," "," "," ">> \o ColumnList(columns) \o <<"\n",")",";">>
DropTable(table) == <<"D","R","O","P"," ","T","A","B","L","E"," ","I","F"," ","E","X","I","S","T","S"," ">> \o table \o <<";">>
AddColumn(table, col, defn) == <<"A","L","T","E","R"," ","T","A","B","L","E"," ">> \o table \o <<" ","A","D","D"," ","C","O","L","U","M","N"," ">> \o col \o <<" ">> \o defn \o <<";">>

\* faulty variant: the dialect is compared without regard to case
IsSqliteAnyCase(dialect_) == Upper(dialect_) = Upper(<<"s","q","l","i","t","e">>)

\* if dialect == "sqlite": ... else: ...
IsSqlite(dialect_) == dialect_ = <<"s","q","l","i","t","e">>
DropColumn(dialect_, table, col) ==
    IF IsSqlite(dialect_)
    THEN <<"-","-"," ","S","Q","L","i","t","e",":"," ","A","L","T","E","R"," ","T","A","B","L","E"," ">> \o table \o <<" ","D","R","O","P"," ","C","O","L","U","M","N"," ">> \o col \o <<";"," ","(","r","e","q","u","i","r","e","s"," ","S","Q","L","i","t","e"," ","3",".","3","5","+",")">>
    ELSE <<"A","L","T","E","R"," ","T","A","B","L","E"," ">> \o table \o <<" ","D","R","O","P"," ","C","O","L","U","M","N"," ">> \o col \o <<";">>

\* the loop over added_tables
RECURSIVE GenAddedTables(_, _)
GenAddedTables(st, todo) ==
    IF todo = <<>> THEN st
    ELSE GenAddedTables([up   |-> Append(st.up, CreateTable(Head(todo).k, Head(todo).v)),
                         down |-> Append(st.down, DropTable(Head(todo).k)),
                         has_changes |-> TRUE], Tail(todo))

\* the loop over removed_tables
RECURSIVE GenRemovedTables(_, _)
GenRemovedTables(st, todo) ==
    IF todo = <<>> THEN st
    ELSE GenRemovedTables([up   |-> Append(st.up, DropTable(Head(todo).k)),
                           down |-> Append(st.down, CreateTable(Head(todo).k, Head(todo).v)),
                           has_changes |-> TRUE], Tail(todo))

\* the inner loop over the columns added to one table
RECURSIVE GenAddedCols(_, _, _, _)
GenAddedCols(st, table, cols, dialect_) ==
    IF cols = <<>> THEN st
    ELSE GenAddedCols([up   |-> Append(st.up, AddColumn(table, Head(cols).k, Head(cols).v)),
                       down |-> Append(st.down, DropColumn(dialect_, table, Head(cols).k)),
                       has_changes |-> st.has_changes], table, Tail(cols), dialect_)

\* the loop over added_columns
RECURSIVE GenAddedColumns(_, _, _)
GenAddedColumns(st, todo, dialect_) ==
    IF todo = <<>> THEN st
    ELSE GenAddedColumns(GenAddedCols([st EXCEPT !.has_changes = TRUE], Head(todo).k, Head(todo).v, dialect_),
                         Tail(todo), dialect_)

\* the inner loop over the columns removed from one table
RECURSIVE GenRemovedCols(_, _, _, _)
GenRemovedCols(st, table, cols, dialect_) ==
    IF cols = <<>> THEN st
    ELSE GenRemovedCols([up   |-> Append(st.up, DropColumn(dialect_, table, Head(cols).k)),
                         down |-> Append(st.down, AddColumn(table, Head(cols).k, Head(cols).v)),
                         has_changes |-> st.has_changes], table, Tail(cols), dialect_)

\* faulty variant: the loop over removed_columns does not set has_changes
RECURSIVE GenRemovedColumnsNoFlag(_, _, _)
GenRemovedColumnsNoFlag(st, todo, dialect_) ==
    IF todo = <<>> THEN st
    ELSE GenRemovedColumnsNoFlag(GenRemovedCols(st, Head(todo).k, Head(todo).v, dialect_), Tail(todo), dialect_)

\* the loop over removed_columns
RECURSIVE GenRemovedColumns(_, _, _)
GenRemovedColumns(st, todo, dialect_) ==
    IF todo = <<>> THEN st
    ELSE GenRemovedColumns(GenRemovedCols([st EXCEPT !.has_changes = TRUE], Head(todo).k, Head(todo).v, dialect_),
                           Tail(todo), dialect_)

\* faulty variant: the column loops run before the table loops
GenLinesColumnsFirst(changes_, dialect_) ==
    LET s0 == [up |-> <<<<"-","-"," ","U","p">>>>, down |-> <<<<"-","-"," ","D","o","w","n">>>>, has_changes |-> FALSE]
        s1 == GenAddedColumns(s0, changes_.added_columns, dialect_)
        s2 == GenRemovedColumns(s1, changes_.removed_columns, dialect_)
        s3 == GenAddedTables(s2, changes_.added_tables)
    IN  GenRemovedTables(s3, changes_.removed_tables)

\* the four loops, in the order of the function body
GenLines(changes_, dialect_) ==
    LET s0 == [up |-> <<<<"-","-"," ","U","p">>>>, down |-> <<<<"-","-"," ","D","o","w","n">>>>, has_changes |-> FALSE]
        s1 == GenAddedTables(s0, changes_.added_tables)
        s2 == GenRemovedTables(s1, changes_.removed_tables)
        s3 == GenAddedColumns(s2, changes_.added_columns, dialect_)
    IN  GenRemovedColumns(s3, changes_.removed_columns, dialect_)

NoChanges == <<"-","-"," ","N","o"," ","c","h","a","n","g","e","s"," ","d","e","t","e","c","t","e","d","\n">>

generate_migration(changes_, dialect_) ==
    LET st == GenLines(changes_, dialect_)
    IN  IF ~st.has_changes THEN NoChanges
        ELSE Join(<<"\n">>, st.up) \o <<"\n","\n">> \o Join(<<"\n">>, st.down) \o <<"\n">>

\* ------------------------------------- inputs of diff_schemas, generate_migration
\* dicts of at most n entries with keys in K and values in V
Dicts(K, V, n) ==
    {d \in SeqUpTo([k : K, v : V], n) : \A i, j \in DOMAIN d : i # j => d[i].k # d[j].k}

AllTableNames == <<<<"t">>, <<"u">>, <<"v">>, <<"w">>>>
AllColumnNames == <<<<"a">>, <<"b">>, <<"c">>, <<"d">>>>
DiffTables == {AllTableNames[i] : i \in 1..(MaxTables + 1)}
DiffColumnNames == {AllColumnNames[i] : i \in 1..MaxCols}
Definitions == {<<"I","N","T">>, <<"T","E","X","T"," ","N","O","T"," ","N","U","L","L">>}
Schemas == Dicts(DiffTables, Dicts(DiffColumnNames, Definitions, MaxCols), MaxTables)
GenSchemas == Dicts(DiffTables, Dicts(DiffColumnNames, {<<"I","N","T">>}, MaxCols), MaxTables)
Dialects == {<<"s","q","l","i","t","e">>, <<"p","o","s","t","g","r","e","s","q","l">>, <<"S","Q","L","i","t","e">>}

Idle ==
    /\ old = <<>> /\ new = <<>> /\ changes = None /\ swapped = None
    /\ dialect = None /\ up_lines = None /\ down_lines = None /\ migration = None
    /\ args = <<>> /\ files = <<>> /\ dry_run = FALSE /\ output_path = None
    /\ exit_code = None /\ stdout = <<>> /\ stderr = <<>> /\ written = <<>>

\* ------------------------------------------------------------- parse specs
InitCols ==
    /\ pc = "start"
    /\ blocks \in {<<b>> : b \in ColumnBlocks}
    /\ sql = BlocksText(blocks)
    /\ tables = None
    /\ Idle

InitParse ==
    /\ pc = "start"
    /\ blocks \in SeqUpTo(ManyBlocks, MaxBlocks)
    /\ sql = BlocksText(blocks)
    /\ tables = None
    /\ Idle

Parse ==
    /\ pc = "start"
    /\ tables' = parse_schema(sql)
    /\ pc' = "parsed"
    /\ UNCHANGED <<blocks, sql, old, new, changes, swapped, dialect, up_lines, down_lines, migration,
                   args, files, dry_run, output_path, exit_code, stdout, stderr, written>>

NextParse == Parse

SpecCols == InitCols /\ [][NextParse]_vars
SpecParse == InitParse /\ [][NextParse]_vars

\* -------------------------------------------------------- diff and render specs
IdleParse == blocks = <<>> /\ sql = <<>> /\ tables = None
IdleMain ==
    /\ args = <<>> /\ files = <<>> /\ dry_run = FALSE /\ output_path = None
    /\ exit_code = None /\ stdout = <<>> /\ stderr = <<>> /\ written = <<>>

InitDiff ==
    /\ pc = "start"
    /\ old \in Schemas /\ new \in Schemas
    /\ changes = None /\ swapped = None
    /\ dialect = None /\ up_lines = None /\ down_lines = None /\ migration = None
    /\ IdleParse /\ IdleMain

InitGen ==
    /\ pc = "start"
    /\ old \in GenSchemas /\ new \in GenSchemas
    /\ changes = None /\ swapped = None
    /\ dialect = None /\ up_lines = None /\ down_lines = None /\ migration = None
    /\ IdleParse /\ IdleMain

\* changes = diff_schemas(old, new)
Diff ==
    /\ pc = "start"
    /\ changes' = diff_schemas(old, new)
    /\ pc' = "diffed"
    /\ UNCHANGED <<blocks, sql, tables, old, new, swapped, dialect, up_lines, down_lines, migration,
                   args, files, dry_run, output_path, exit_code, stdout, stderr, written>>

\* the same call with the arguments exchanged
DiffSwapped ==
    /\ pc = "diffed"
    /\ swapped' = diff_schemas(new, old)
    /\ pc' = "swapped"
    /\ UNCHANGED <<blocks, sql, tables, old, new, changes, dialect, up_lines, down_lines, migration,
                   args, files, dry_run, output_path, exit_code, stdout, stderr, written>>

\* migration = generate_migration(changes, dialect)
Generate ==
    /\ pc = "diffed"
    /\ \E d \in Dialects :
          /\ dialect' = d
          /\ up_lines' = GenLines(changes, d).up
          /\ down_lines' = GenLines(changes, d).down
          /\ migration' = generate_migration(changes, d)
    /\ pc' = "generated"
    /\ UNCHANGED <<blocks, sql, tables, old, new, changes, swapped,
                   args, files, dry_run, output_path, exit_code, stdout, stderr, written>>

NextDiff == Diff \/ DiffSwapped
NextGen == Diff \/ Generate

SpecDiff == InitDiff /\ [][NextDiff]_vars
SpecGen == InitGen /\ [][NextGen]_vars

\* ---------------------------------------------------------------------- main
\* print(text): the text and a newline
PrintLine(text) == text \o <<"\n">>

\* the eight print calls of the --help branch
Usage ==
    PrintLine(<<"U","s","a","g","e",":"," ","r","u","n",".","p","y"," ","[","O","P","T","I","O","N","S","]"," ","<","o","l","d","-","s","c","h","e","m","a",".","s","q","l",">"," ","<","n","e","w","-","s","c","h","e","m","a",".","s","q","l",">">>)
    \o PrintLine(<<>>)
    \o PrintLine(<<"G","e","n","e","r","a","t","e"," ","S","Q","L"," ","m","i","g","r","a","t","i","o","n"," ","b","y"," ","d","i","f","f","i","n","g"," ","t","w","o"," ","s","c","h","e","m","a"," ","f","i","l","e","s",".">>)
    \o PrintLine(<<>>)
    \o PrintLine(<<"O","p","t","i","o","n","s",":">>)
    \o PrintLine(<<" "," ","-","-","d","i","a","l","e","c","t"," ","D","I","A","L","E","C","T"," "," ","S","Q","L"," ","d","i","a","l","e","c","t",":"," ","s","q","l","i","t","e",","," ","p","o","s","t","g","r","e","s","q","l"," ","(","d","e","f","a","u","l","t",":"," ","s","q","l","i","t","e",")">>)
    \o PrintLine(<<" "," ","-","-","d","r","y","-","r","u","n"," "," "," "," "," "," "," "," "," "," ","S","h","o","w"," ","c","h","a","n","g","e","s"," ","w","i","t","h","o","u","t"," ","g","e","n","e","r","a","t","i","n","g"," ","m","i","g","r","a","t","i","o","n">>)
    \o PrintLine(<<" "," ","-","-","o","u","t","p","u","t"," ","P","A","T","H"," "," "," "," "," "," ","W","r","i","t","e"," ","m","i","g","r","a","t","i","o","n"," ","t","o"," ","f","i","l","e">>)
    \o PrintLine(<<" "," ","-","h",","," ","-","-","h","e","l","p"," "," "," "," "," "," "," "," "," ","S","h","o","w"," ","t","h","i","s"," ","h","e","l","p">>)

\* if "--help" in args or "-h" in args
WantsHelp(argv) == <<"-","-","h","e","l","p">> \in Range(argv) \/ <<"-","h">> \in Range(argv)

\* the while loop over args, from index i (1-based)
RECURSIVE ParseArgs(_, _, _)
ParseArgs(st, argv, i) ==
    IF i > Len(argv) THEN st
    ELSE IF argv[i] = <<"-","-","d","i","a","l","e","c","t">> /\ i + 1 <= Len(argv)
         THEN ParseArgs([st EXCEPT !.dialect = argv[i + 1]], argv, i + 2)
    ELSE IF argv[i] = <<"-","-","d","r","y","-","r","u","n">>
         THEN ParseArgs([st EXCEPT !.dry_run = TRUE], argv, i + 1)
    ELSE IF argv[i] = <<"-","-","o","u","t","p","u","t">> /\ i + 1 <= Len(argv)
         THEN ParseArgs([st EXCEPT !.output_path = argv[i + 1]], argv, i + 2)
    ELSE ParseArgs([st EXCEPT !.files = Append(st.files, argv[i])], argv, i + 1)

\* the defaults set before the loop
ArgDefaults == [dialect |-> <<"s","q","l","i","t","e">>, dry_run |-> FALSE, output_path |-> None, files |-> <<>>]

\* the file system the program runs in: two schema files and a directory; every
\* other path names nothing
OldSql == <<"C","R","E","A","T","E"," ","T","A","B","L","E"," ","t"," ","(","a"," ","I","N","T",")",";","\n","C","R","E","A","T","E"," ","T","A","B","L","E"," ","u"," ","(","a"," ","I","N","T",")",";","\n">>
NewSql == <<"C","R","E","A","T","E"," ","T","A","B","L","E"," ","t"," ","(","\n"," "," "," "," ","a"," ","I","N","T",",","\n"," "," "," "," ","b"," ","T","E","X","T","\n",")",";","\n","C","R","E","A","T","E"," ","T","A","B","L","E"," ","v"," ","(","a"," ","I","N","T",")",";","\n">>
RegularFiles == <<[k |-> <<"o","l","d",".","s","q","l">>, v |-> OldSql], [k |-> <<"n","e","w",".","s","q","l">>, v |-> NewSql]>>
Directories == {<<"d","i","r">>}

\* Path.exists()
Exists(path) == DictHas(RegularFiles, path) \/ path \in Directories

\* Path.read_text() and Path.write_text() raise IsADirectoryError on a directory
IsDirectory(path) == path \in Directories
ReadText(path) == DictGet(RegularFiles, path)

\* what the interpreter writes for the uncaught exception (the stack frames between
\* the two lines are left out)
Traceback(path) ==
    PrintLine(<<"T","r","a","c","e","b","a","c","k"," ","(","m","o","s","t"," ","r","e","c","e","n","t"," ","c","a","l","l"," ","l","a","s","t",")",":">>)
    \o PrintLine(<<"I","s","A","D","i","r","e","c","t","o","r","y","E","r","r","o","r",":"," ","[","E","r","r","n","o"," ","2","1","]"," ","I","s"," ","a"," ","d","i","r","e","c","t","o","r","y",":"," ","'">> \o path \o <<"'">>)

\* has_changes = any(v for v in changes.values())
HasChanges(changes_) ==
    \/ changes_.added_tables # <<>> \/ changes_.removed_tables # <<>>
    \/ changes_.added_columns # <<>> \/ changes_.removed_columns # <<>>

\* for table, cols in category.items(): print(f"{label}{table}: {', '.join(cols.keys())}")
RECURSIVE DryRunColumns(_, _)
DryRunColumns(label, category) ==
    IF category = <<>> THEN <<>>
    ELSE PrintLine(label \o Head(category).k \o <<":"," ">> \o Join(<<","," ">>, DictKeys(Head(category).v)))
         \o DryRunColumns(label, Tail(category))

\* the prints of the dry-run branch
DryRunText(changes_) ==
    PrintLine(<<"=","=","="," ","D","R","Y"," ","R","U","N"," ","=","=","=">>)
    \o PrintLine(<<>>)
    \o (IF changes_.added_tables # <<>>
        THEN PrintLine(<<"T","a","b","l","e","s"," ","t","o"," ","a","d","d",":"," ">> \o Join(<<","," ">>, DictKeys(changes_.added_tables))) ELSE <<>>)
    \o (IF changes_.removed_tables # <<>>
        THEN PrintLine(<<"T","a","b","l","e","s"," ","t","o"," ","r","e","m","o","v","e",":"," ">> \o Join(<<","," ">>, DictKeys(changes_.removed_tables))) ELSE <<>>)
    \o DryRunColumns(<<"C","o","l","u","m","n","s"," ","t","o"," ","a","d","d"," ","i","n"," ">>, changes_.added_columns)
    \o DryRunColumns(<<"C","o","l","u","m","n","s"," ","t","o"," ","r","e","m","o","v","e"," ","f","r","o","m"," ">>, changes_.removed_columns)

ArgTokens == {<<"-","-","h","e","l","p">>, <<"-","h">>, <<"-","-","d","i","a","l","e","c","t">>, <<"-","-","d","r","y","-","r","u","n">>, <<"-","-","o","u","t","p","u","t">>,
              <<"o","l","d",".","s","q","l">>, <<"n","e","w",".","s","q","l">>, <<"d","i","r">>, <<"n","o","p","e",".","s","q","l">>, <<"p","o","s","t","g","r","e","s","q","l">>}

InitMain ==
    /\ pc = "main"
    /\ args \in SeqUpTo(ArgTokens, MaxArgs)
    /\ files = <<>> /\ dry_run = FALSE /\ output_path = None /\ dialect = None
    /\ old = <<>> /\ new = <<>> /\ changes = None /\ swapped = None
    /\ up_lines = None /\ down_lines = None /\ migration = None
    /\ exit_code = None /\ stdout = <<>> /\ stderr = <<>> /\ written = <<>>
    /\ IdleParse

\* sys.exit(code)
Exit(code) == exit_code' = code /\ pc' = "exited"

\* the --help branch
MainHelp ==
    /\ pc = "main" /\ WantsHelp(args)
    /\ stdout' = stdout \o Usage
    /\ Exit(0)
    /\ UNCHANGED <<blocks, sql, tables, old, new, changes, swapped, dialect, up_lines, down_lines,
                   migration, args, files, dry_run, output_path, stderr, written>>

\* the argument loop
MainParseArgs ==
    /\ pc = "main" /\ ~WantsHelp(args)
    /\ LET st == ParseArgs(ArgDefaults, args, 1)
       IN  /\ dialect' = st.dialect /\ dry_run' = st.dry_run
           /\ output_path' = st.output_path /\ files' = st.files
    /\ pc' = "args_parsed"
    /\ UNCHANGED <<blocks, sql, tables, old, new, changes, swapped, up_lines, down_lines,
                   migration, args, exit_code, stdout, stderr, written>>

\* if len(files) < 2
MainTooFewFiles ==
    /\ pc = "args_parsed" /\ Len(files) < 2
    /\ stderr' = stderr \o PrintLine(<<"E","r","r","o","r",":"," ","t","w","o"," ","s","c","h","e","m","a"," ","f","i","l","e","s"," ","r","e","q","u","i","r","e","d"," ","(","o","l","d"," ","a","n","d"," ","n","e","w",")",".">>)
    /\ Exit(1)
    /\ UNCHANGED <<blocks, sql, tables, old, new, changes, swapped, dialect, up_lines, down_lines,
                   migration, args, files, dry_run, output_path, stdout, written>>

\* if not old_path.exists(): ... if not new_path.exists(): ...
MainFileNotFound ==
    /\ pc = "args_parsed" /\ Len(files) >= 2
    /\ ~Exists(files[1]) \/ ~Exists(files[2])
    /\ stderr' = stderr \o PrintLine(<<"E","r","r","o","r",":"," ","f","i","l","e"," ","n","o","t"," ","f","o","u","n","d",":"," ">>
                                     \o (IF ~Exists(files[1]) THEN files[1] ELSE files[2]))
    /\ Exit(1)
    /\ UNCHANGED <<blocks, sql, tables, old, new, changes, swapped, dialect, up_lines, down_lines,
                   migration, args, files, dry_run, output_path, stdout, written>>

\* read_text() of a directory raises; nothing catches it
MainReadError ==
    /\ pc = "args_parsed" /\ Len(files) >= 2
    /\ Exists(files[1]) /\ Exists(files[2])
    /\ IsDirectory(files[1]) \/ IsDirectory(files[2])
    /\ stderr' = stderr \o Traceback(IF IsDirectory(files[1]) THEN files[1] ELSE files[2])
    /\ Exit(1)
    /\ UNCHANGED <<blocks, sql, tables, old, new, changes, swapped, dialect, up_lines, down_lines,
                   migration, args, files, dry_run, output_path, stdout, written>>

\* old_schema, new_schema = parse_schema(...); changes = diff_schemas(...)
MainCompare ==
    /\ pc = "args_parsed" /\ Len(files) >= 2
    /\ Exists(files[1]) /\ Exists(files[2])
    /\ ~IsDirectory(files[1]) /\ ~IsDirectory(files[2])
    /\ old' = parse_schema(ReadText(files[1]))
    /\ new' = parse_schema(ReadText(files[2]))
    /\ changes' = diff_schemas(old', new')
    /\ pc' = "compared"
    /\ UNCHANGED <<blocks, sql, tables, swapped, dialect, up_lines, down_lines,
                   migration, args, files, dry_run, output_path, exit_code, stdout, stderr, written>>

\* if not has_changes
MainNoChanges ==
    /\ pc = "compared" /\ ~HasChanges(changes)
    /\ stdout' = stdout \o PrintLine(<<"N","o"," ","c","h","a","n","g","e","s"," ","d","e","t","e","c","t","e","d"," ","b","e","t","w","e","e","n"," ","s","c","h","e","m","a","s",".">>)
    /\ Exit(0)
    /\ UNCHANGED <<blocks, sql, tables, old, new, changes, swapped, dialect, up_lines, down_lines,
                   migration, args, files, dry_run, output_path, stderr, written>>

\* if dry_run
MainDryRun ==
    /\ pc = "compared" /\ HasChanges(changes) /\ dry_run
    /\ stdout' = stdout \o DryRunText(changes)
    /\ Exit(0)
    /\ UNCHANGED <<blocks, sql, tables, old, new, changes, swapped, dialect, up_lines, down_lines,
                   migration, args, files, dry_run, output_path, stderr, written>>

\* the migration is rendered; without --output it is printed
MainPrint ==
    /\ pc = "compared" /\ HasChanges(changes) /\ ~dry_run /\ output_path = None
    /\ up_lines' = GenLines(changes, dialect).up
    /\ down_lines' = GenLines(changes, dialect).down
    /\ migration' = generate_migration(changes, dialect)
    /\ stdout' = stdout \o migration'
    /\ Exit(0)
    /\ UNCHANGED <<blocks, sql, tables, old, new, changes, swapped, dialect,
                   args, files, dry_run, output_path, stderr, written>>

\* with --output it is written to the path and a note goes to standard error
MainWrite ==
    /\ pc = "compared" /\ HasChanges(changes) /\ ~dry_run
    /\ output_path # None /\ ~IsDirectory(output_path)
    /\ up_lines' = GenLines(changes, dialect).up
    /\ down_lines' = GenLines(changes, dialect).down
    /\ migration' = generate_migration(changes, dialect)
    /\ written' = DictSet(written, output_path, migration')
    /\ stderr' = stderr \o PrintLine(<<"M","i","g","r","a","t","i","o","n"," ","w","r","i","t","t","e","n"," ","t","o"," ">> \o output_path)
    /\ Exit(0)
    /\ UNCHANGED <<blocks, sql, tables, old, new, changes, swapped, dialect,
                   args, files, dry_run, output_path, stdout>>

\* write_text() to a directory raises; nothing catches it
MainWriteError ==
    /\ pc = "compared" /\ HasChanges(changes) /\ ~dry_run
    /\ output_path # None /\ IsDirectory(output_path)
    /\ up_lines' = GenLines(changes, dialect).up
    /\ down_lines' = GenLines(changes, dialect).down
    /\ migration' = generate_migration(changes, dialect)
    /\ stderr' = stderr \o Traceback(output_path)
    /\ Exit(1)
    /\ UNCHANGED <<blocks, sql, tables, old, new, changes, swapped, dialect,
                   args, files, dry_run, output_path, stdout, written>>

NextMain ==
    \/ MainHelp \/ MainParseArgs \/ MainTooFewFiles \/ MainFileNotFound \/ MainReadError
    \/ MainCompare \/ MainNoChanges \/ MainDryRun \/ MainPrint \/ MainWrite \/ MainWriteError

SpecMain == InitMain /\ [][NextMain]_vars

\* ------------------------------------------------------------- claims: parser
\* the whitespace-delimited tokens of a fragment
Tokens(f) == SplitWs(Strip(f))

\* the fragment is kept by the rule of the claim: two tokens or more, and the
\* upper-cased trimmed text starts with none of the five keywords
Qualifies(f) ==
    /\ Len(Tokens(f)) >= 2
    /\ \A kw \in {<<"P","R","I","M","A","R","Y"," ","K","E","Y">>, <<"F","O","R","E","I","G","N"," ","K","E","Y">>, <<"U","N","I","Q","U","E">>, <<"C","H","E","C","K">>, <<"C","O","N","S","T","R","A","I","N","T">>} :
          ~StartsWith(Upper(Strip(f)), kw)

\* the fragment is a table-level constraint line: one of the keywords, as whole
\* words, opens it
IsTableConstraint(f) ==
    LET text == Upper(Join(<<" ">>, Tokens(f)))
    IN  \E kw \in {<<"P","R","I","M","A","R","Y"," ","K","E","Y">>, <<"F","O","R","E","I","G","N"," ","K","E","Y">>, <<"U","N","I","Q","U","E">>, <<"C","H","E","C","K">>, <<"C","O","N","S","T","R","A","I","N","T">>} :
           /\ StartsWith(text, kw)
           /\ (Len(text) = Len(kw) \/ ~IsWord(text[Len(kw) + 1]))

\* the columns parsed for the one block of the input
ParsedColumns == DictGet(tables, blocks[1].name)

\* C9, first half: a fragment becomes a column exactly when it qualifies; the name
\* is its first token, the definition its other tokens joined by single spaces
\* (of the last fragment of that name).
C9_ExactlyWhen ==
    pc = "parsed" /\ Len(blocks) = 1 /\ blocks[1] \in ColumnBlocks =>
        LET fr == blocks[1].frags
            q  == {i \in DOMAIN fr : Qualifies(fr[i])}
        IN  /\ KeySet(ParsedColumns) = {Tokens(fr[i])[1] : i \in q}
            /\ \A i \in q :
                  (\A j \in q : j > i => Tokens(fr[j])[1] # Tokens(fr[i])[1]) =>
                      DictGet(ParsedColumns, Tokens(fr[i])[1]) = Join(<<" ">>, Tail(Tokens(fr[i])))

\* C9, second half: only table-level constraint lines are skipped, never a column
\* definition: a fragment of two tokens or more that is no table-level constraint
\* line is a column of the result.
C9_OnlyConstraintsSkipped ==
    pc = "parsed" /\ Len(blocks) = 1 /\ blocks[1] \in ColumnBlocks =>
        \A i \in DOMAIN blocks[1].frags :
            LET f == blocks[1].frags[i]
            IN  Len(Tokens(f)) >= 2 /\ ~IsTableConstraint(f) => DictHas(ParsedColumns, Tokens(f)[1])

\* C9: in parse_schema a fragment becomes a column exactly when it has two tokens
\* or more and does not start with a constraint keyword, a column-level modifier
\* stays in the definition, and only table-level constraint lines are skipped,
\* never a column definition.
C9_Claim == C9_ExactlyWhen /\ C9_OnlyConstraintsSkipped

\* the blocks of the input are all closed, so each is one match of the pattern
AllClosed == \A i \in DOMAIN blocks : blocks[i].close = <<")",";","\n">>

\* the last block of the input with the name of block i
IsLast(i) == \A j \in DOMAIN blocks : j > i => blocks[j].name # blocks[i].name

\* C10: with several CREATE TABLE blocks of one name the Schema maps the name to
\* the Column Set of the last such block only, with one entry per distinct table
\* name; an input with no matched block gives the empty Schema.
C10_LastWins ==
    pc = "parsed" =>
        LET ms == FindIter(sql, 1)
        IN  /\ ms = <<>> => tables = <<>>
            /\ KeySet(tables) = {ms[i].name : i \in DOMAIN ms}
            /\ Len(tables) = Cardinality(KeySet(tables))
            /\ AllClosed =>
                  /\ Len(ms) = Len(blocks)
                  /\ \A i \in DOMAIN blocks : IsLast(i) => DictGet(tables, blocks[i].name) = blocks[i].cols

\* two closed blocks of one table; the first has a column the second lacks
C10_Witness ==
    /\ pc = "parsed" /\ AllClosed /\ Len(blocks) = 2
    /\ blocks[1].name = blocks[2].name
    /\ KeySet(blocks[1].cols) \ KeySet(blocks[2].cols) # {}
    /\ tables = <<[k |-> blocks[2].name, v |-> blocks[2].cols]>>

\* ------------------------------------------------------- claims: diff_schemas
Diffed == pc \in {"diffed", "swapped", "generated"}
Common == KeySet(old) \cap KeySet(new)

\* C1: no table is a key of both added_tables and removed_tables; a table present
\* in both schemas is a key of neither; every key of added_columns or
\* removed_columns is a table present in both schemas.
C1_TableInvariants ==
    Diffed =>
        /\ KeySet(changes.added_tables) \cap KeySet(changes.removed_tables) = {}
        /\ Common \cap (KeySet(changes.added_tables) \cup KeySet(changes.removed_tables)) = {}
        /\ KeySet(changes.added_columns) \cup KeySet(changes.removed_columns) \subseteq Common

\* every category holds a table
AllCategories ==
    /\ changes.added_tables # <<>> /\ changes.removed_tables # <<>>
    /\ changes.added_columns # <<>> /\ changes.removed_columns # <<>>

C1_Witness == pc = "diffed" /\ AllCategories

\* a dict of columns and a dict of tables as mappings, the order forgotten
ColumnMap(cols) == {<<cols[i].k, cols[i].v>> : i \in DOMAIN cols}
TableMap(d) == {<<d[i].k, ColumnMap(d[i].v)>> : i \in DOMAIN d}

\* C2: diffing is anti-symmetric: exchanging the arguments exchanges added_tables
\* with removed_tables and added_columns with removed_columns, as mappings.
C2_AntiSymmetric ==
    pc = "swapped" =>
        /\ TableMap(swapped.added_tables) = TableMap(changes.removed_tables)
        /\ TableMap(swapped.removed_tables) = TableMap(changes.added_tables)
        /\ TableMap(swapped.added_columns) = TableMap(changes.removed_columns)
        /\ TableMap(swapped.removed_columns) = TableMap(changes.added_columns)

C2_Witness == pc = "swapped" /\ AllCategories

\* the keys of d that are in S, in the order of d
RECURSIVE KeysIn(_, _)
KeysIn(d, S) ==
    IF d = <<>> THEN <<>>
    ELSE IF Head(d).k \in S THEN <<Head(d).k>> \o KeysIn(Tail(d), S)
    ELSE KeysIn(Tail(d), S)

\* the tables of category follow the table order of tableOrder, and the columns of
\* each follow the column order of that table in columnOrder
FollowsOrder(category, tableOrder, columnOrder) ==
    /\ DictKeys(category) = KeysIn(tableOrder, KeySet(category))
    /\ \A i \in DOMAIN category :
          DictKeys(category[i].v) = KeysIn(DictGet(columnOrder, category[i].k), KeySet(category[i].v))

\* C3 as stated: added_columns follows the table order of new and the column order
\* of new[table]; removed_columns follows the table order of old and the column
\* order of old[table].
C3_Original ==
    Diffed =>
        /\ FollowsOrder(changes.added_columns, new, new)
        /\ FollowsOrder(changes.removed_columns, old, old)

\* C3 as amended: added_columns follows the table order of new and the column order
\* of new[table]; removed_columns follows the table order of new as well (one loop
\* over new fills both) and the column order of old[table].
C3_Order ==
    Diffed =>
        /\ FollowsOrder(changes.added_columns, new, new)
        /\ FollowsOrder(changes.removed_columns, new, old)

\* two tables lose columns, one of them two, and the schemas order them differently
C3_Witness ==
    /\ pc = "diffed"
    /\ Len(changes.removed_columns) = 2
    /\ \E i \in DOMAIN changes.removed_columns : Len(changes.removed_columns[i].v) = 2
    /\ DictKeys(changes.removed_columns) # KeysIn(old, KeySet(changes.removed_columns))

\* the columns a category holds for a table, none when the table is no key of it
ColumnsOf(category, table) == IF DictHas(category, table) THEN ColumnMap(DictGet(category, table)) ELSE {}

\* C5: column changes are detected by name only: for a table of both schemas,
\* added_columns[t] is the columns named in new[t] and not in old[t], with the
\* definition of new, removed_columns[t] those named in old[t] and not in new[t],
\* with the definition of old; a column of both with another definition is in no
\* category.
C5_ByNameOnly ==
    Diffed =>
        \A t \in Common :
            LET o == DictGet(old, t)
                n == DictGet(new, t)
            IN  /\ ColumnsOf(changes.added_columns, t) = {<<c, DictGet(n, c)>> : c \in KeySet(n) \ KeySet(o)}
                /\ ColumnsOf(changes.removed_columns, t) = {<<c, DictGet(o, c)>> : c \in KeySet(o) \ KeySet(n)}
                /\ \A c \in KeySet(o) \cap KeySet(n) :
                      /\ ~DictHas(changes.added_tables, t) /\ ~DictHas(changes.removed_tables, t)
                      /\ \A d \in {DictGet(o, c), DictGet(n, c)} :
                            /\ <<c, d>> \notin ColumnsOf(changes.added_columns, t)
                            /\ <<c, d>> \notin ColumnsOf(changes.removed_columns, t)

\* a table of both schemas gains a column and keeps one whose definition changed
C5_Witness ==
    /\ pc = "diffed"
    /\ \E t \in Common :
          /\ DictHas(changes.added_columns, t)
          /\ \E c \in KeySet(DictGet(old, t)) \cap KeySet(DictGet(new, t)) :
                DictGet(DictGet(old, t), c) # DictGet(DictGet(new, t), c)

\* ------------------------------------------------- claims: generate_migration
AllEmpty ==
    /\ changes.added_tables = <<>> /\ changes.removed_tables = <<>>
    /\ changes.added_columns = <<>> /\ changes.removed_columns = <<>>

\* C4: diff_schemas(S, S) has four empty categories and generate_migration renders
\* it, for every dialect, as "-- No changes detected\n"; generate_migration returns
\* that text only when the four categories are empty.
C4_NoChanges ==
    /\ Diffed /\ old = new => AllEmpty
    /\ pc = "generated" /\ old = new => migration = <<"-","-"," ","N","o"," ","c","h","a","n","g","e","s"," ","d","e","t","e","c","t","e","d","\n">>
    /\ pc = "generated" /\ migration = <<"-","-"," ","N","o"," ","c","h","a","n","g","e","s"," ","d","e","t","e","c","t","e","d","\n">> => AllEmpty

C4_Witness ==
    /\ pc = "generated" /\ old = new /\ Len(old) = 2 /\ old[1].v # <<>>
    /\ dialect = <<"p","o","s","t","g","r","e","s","q","l">>
    /\ migration = <<"-","-"," ","N","o"," ","c","h","a","n","g","e","s"," ","d","e","t","e","c","t","e","d","\n">>

\* the changes of a category of tables, in order
TableItems(cat, d) == IF d = <<>> THEN <<>> ELSE [i \in 1..Len(d) |-> [cat |-> cat, table |-> d[i].k, col |-> None]]

\* the changes of a category of columns, in order
RECURSIVE ColumnItems(_, _)
ColumnItems(cat, d) ==
    IF d = <<>> THEN <<>>
    ELSE (IF Head(d).v = <<>> THEN <<>>
          ELSE [i \in 1..Len(Head(d).v) |-> [cat |-> cat, table |-> Head(d).k, col |-> Head(d).v[i].k]])
         \o ColumnItems(cat, Tail(d))

\* every change of the Change Set, in the category order of the renderer
ChangeList ==
    TableItems("added_table", changes.added_tables) \o TableItems("removed_table", changes.removed_tables)
    \o ColumnItems("added_column", changes.added_columns) \o ColumnItems("removed_column", changes.removed_columns)

Contains(s, sub) == \E i \in 1..(Len(s) - Len(sub) + 1) : SubSeq(s, i, i + Len(sub) - 1) = sub

\* what a statement does, read off its text
Creates(line, table) == StartsWith(line, <<"C","R","E","A","T","E"," ","T","A","B","L","E"," ">> \o table \o <<" ","(">>)
DropsTable(line, table) == line = <<"D","R","O","P"," ","T","A","B","L","E"," ","I","F"," ","E","X","I","S","T","S"," ">> \o table \o <<";">>
AddsColumn(line, table, col) == StartsWith(line, <<"A","L","T","E","R"," ","T","A","B","L","E"," ">> \o table \o <<" ","A","D","D"," ","C","O","L","U","M","N"," ">> \o col \o <<" ">>)
DropsColumn(line, table, col) == Contains(line, <<"A","L","T","E","R"," ","T","A","B","L","E"," ">> \o table \o <<" ","D","R","O","P"," ","C","O","L","U","M","N"," ">> \o col \o <<";">>)

\* the statement applies the change
Applies(line, c) ==
    CASE c.cat = "added_table"    -> Creates(line, c.table)
      [] c.cat = "removed_table"  -> DropsTable(line, c.table)
      [] c.cat = "added_column"   -> AddsColumn(line, c.table, c.col)
      [] c.cat = "removed_column" -> DropsColumn(line, c.table, c.col)

\* the statement reverses the change
Reverses(line, c) ==
    CASE c.cat = "added_table"    -> DropsTable(line, c.table)
      [] c.cat = "removed_table"  -> Creates(line, c.table)
      [] c.cat = "added_column"   -> DropsColumn(line, c.table, c.col)
      [] c.cat = "removed_column" -> AddsColumn(line, c.table, c.col)

\* C6: for a non-empty Change Set the Up block and the Down block hold one
\* statement per change, in the order added tables, removed tables, added columns,
\* removed columns; the k-th Down statement reverses the k-th Up statement; the
\* output is the Up lines, a blank line, the Down lines and a final newline.
C6_CategoryOrder ==
    pc = "generated" /\ ~AllEmpty =>
        /\ Len(up_lines) = Len(ChangeList) + 1 /\ up_lines[1] = <<"-","-"," ","U","p">>
        /\ Len(down_lines) = Len(ChangeList) + 1 /\ down_lines[1] = <<"-","-"," ","D","o","w","n">>
        /\ \A k \in DOMAIN ChangeList :
              Applies(up_lines[k + 1], ChangeList[k]) /\ Reverses(down_lines[k + 1], ChangeList[k])
        /\ migration = Join(<<"\n">>, up_lines) \o <<"\n","\n">> \o Join(<<"\n">>, down_lines) \o <<"\n">>

C6_Witness == pc = "generated" /\ AllCategories /\ Len(ChangeList) >= 4

\* the statement of the block that drops a column, for change k
DropLine(k) == IF ChangeList[k].cat = "added_column" THEN down_lines[k + 1] ELSE up_lines[k + 1]

\* C7: with dialect "sqlite" exactly, the statement that drops a column (Down of an
\* added column, Up of a removed column) is a one-line SQL comment and no ALTER
\* TABLE statement; with any other dialect it is "ALTER TABLE T DROP COLUMN C;".
\* The other statements are the same for every dialect.
C7_DialectDrop ==
    pc = "generated" =>
        /\ \A k \in DOMAIN ChangeList :
              ChangeList[k].cat \in {"added_column", "removed_column"} =>
                  IF dialect = <<"s","q","l","i","t","e">>
                  THEN /\ StartsWith(DropLine(k), <<"-","-">>)
                       /\ "\n" \notin Range(DropLine(k))
                  ELSE DropLine(k) = <<"A","L","T","E","R"," ","T","A","B","L","E"," ">> \o ChangeList[k].table \o <<" ","D","R","O","P"," ","C","O","L","U","M","N"," ">> \o ChangeList[k].col \o <<";">>
        /\ \A d \in Dialects : \A k \in DOMAIN ChangeList :
              /\ ChangeList[k].cat # "removed_column" => GenLines(changes, d).up[k + 1] = up_lines[k + 1]
              /\ ChangeList[k].cat # "added_column" => GenLines(changes, d).down[k + 1] = down_lines[k + 1]

C7_Witness ==
    /\ pc = "generated" /\ dialect = <<"s","q","l","i","t","e">>
    /\ changes.added_columns # <<>> /\ changes.removed_columns # <<>> /\ changes.added_tables # <<>>

\* ---------------------------------------------------------------- claims: main
\* the run is one the claim gives exit code 1: too few positional arguments
\* collected, or one of the first two names no existing path
MustFail == Len(files) < 2 \/ ~Exists(files[1]) \/ ~Exists(files[2])

\* C8: without --help/-h the run ends with exit code 1 exactly when fewer than two
\* positional arguments were collected or one of the first two paths does not
\* exist, and then a message is on standard error, nothing on standard output and
\* no file is written; every other run ends with exit code 0.  With --help or -h
\* anywhere the run prints the usage and ends with exit code 0.
C8_Claim ==
    pc = "exited" =>
        IF WantsHelp(args) THEN exit_code = 0 /\ stdout = Usage
        ELSE /\ exit_code = 1 <=> MustFail
             /\ MustFail => stderr # <<>> /\ stdout = <<>> /\ written = <<>>
             /\ ~MustFail => exit_code = 0

\* no path the run reads or writes is a directory
NoDirectory ==
    /\ \A i \in DOMAIN files : i <= 2 => ~IsDirectory(files[i])
    /\ output_path = None \/ ~IsDirectory(output_path)

\* C8 for the runs whose paths are regular files or missing
C8_RegularPaths == NoDirectory => C8_Claim

====
